---- MODULE Spec2Model ----
(***************************************************************************)
(* Model of hpmc::ExternalCallback<Shape> (hoomd/hpmc/ExternalCallback.h): *)
(* the callback external field and its Boltzmann-factor / acceptance       *)
(* protocol for particle moves and box moves.                              *)
(*                                                                         *)
(* Scalars are IEEE values: a finite number or one of +inf, -inf, NaN.     *)
(* Energies are kept on an integer grid; exp() results and the uniform     *)
(* draws are fixed-point numbers in thousandths.                           *)
(***************************************************************************)
EXTENDS Integers, Sequences, FiniteSets, TLC

\* Largest particle tag of the system: tags are 0..MaxTag.
MaxTag == 1

\* Number of draws the caller's random stream is followed for.
MaxDraws == 2

Tags == 0 .. MaxTag
Positions == 0 .. 1
Orientations == 0 .. 1
Boxes == 1 .. 2

(***************************************************************************)
(* Scalar arithmetic                                                       *)
(***************************************************************************)
Fin(n) == [k |-> "fin", v |-> n]
PInf == [k |-> "inf", v |-> 1]
NInf == [k |-> "inf", v |-> -1]
NaN == [k |-> "nan", v |-> 0]
\* pybind11::none()
None == [k |-> "none", v |-> 0]

IsFinite(a) == a.k = "fin"

\* unary minus
FNeg(a) ==
    IF a.k = "nan" THEN NaN ELSE [k |-> a.k, v |-> 0 - a.v]

\* a + b
FAdd(a, b) ==
    IF a.k = "nan" \/ b.k = "nan" THEN NaN
    ELSE IF a.k = "inf" /\ b.k = "inf" THEN (IF a.v = b.v THEN a ELSE NaN)
    ELSE IF a.k = "inf" THEN a
    ELSE IF b.k = "inf" THEN b
    ELSE Fin(a.v + b.v)

\* a < b
FLt(a, b) ==
    IF a.k = "nan" \/ b.k = "nan" THEN FALSE
    ELSE IF a.k = "inf" /\ b.k = "inf" THEN a.v < b.v
    ELSE IF a.k = "inf" THEN a.v < 0
    ELSE IF b.k = "inf" THEN b.v > 0
    ELSE a.v < b.v

\* exp(d) for an integer d, in thousandths, rounded towards zero
RECURSIVE ExpFix(_)
ExpFix(d) ==
    IF d = 0 THEN 1000
    ELSE IF d > 0 THEN (ExpFix(d - 1) * 2718) \div 1000
    ELSE (ExpFix(d + 1) * 1000) \div 2718

\* exp(a): past the largest representable result it overflows to +inf, and
\* it underflows to 0 (ExpFix rounds to 0 from exp(-7) on)
FExp(a) ==
    IF a.k = "nan" THEN NaN
    ELSE IF a.k = "inf" THEN (IF a.v > 0 THEN PInf ELSE Fin(0))
    ELSE IF a.v > 6 THEN PInf
    ELSE IF a.v < -7 THEN Fin(0)
    ELSE Fin(ExpFix(a.v))

(***************************************************************************)
(* State                                                                   *)
(***************************************************************************)
VARIABLES
    particles,  \* the live configuration: tag -> [pos, orientation]
    h_tag,      \* m_pdata->getTags(): the local tag array, by live index
    box,        \* the live global box
    callback,   \* the python callback the field was constructed with
    omitted,    \* tags a defective snapshot provider leaves out of the map
    rng,        \* the caller's random stream: number of draws consumed
    naccept,    \* number of accept() calls made on the stream
    last        \* the latest engine call and what it returned

vars == <<particles, h_tag, box, callback, omitted, rng, naccept, last>>
live == <<particles, h_tag, box>>

\* m_pdata->getN()
N == Len(h_tag)

(***************************************************************************)
(* Snapshot provider: SystemDefinition::takeSnapshot                       *)
(***************************************************************************)
\* Slot of tag t in a snapshot of the tag set S: slots are in ascending tag order
Rank(t, S) == Cardinality({s \in S : s < t}) + 1

TagAtSlot(i, S) == CHOOSE t \in S : Rank(t, S) = i

\* m_sysdef->takeSnapshot<Scalar>(particles): map, particle_data, global_box
\* of the live configuration; no particle data when particles is FALSE
SystemDefinition_takeSnapshot(with_particles) ==
    LET S == IF with_particles THEN (DOMAIN particles) \ omitted ELSE {}
    IN  [map |-> [t \in S |-> Rank(t, S)],
         pos |-> [i \in 1 .. Cardinality(S) |-> particles[TagAtSlot(i, S)].pos],
         orientation |-> [i \in 1 .. Cardinality(S) |-> particles[TagAtSlot(i, S)].orientation],
         global_box |-> box]

(***************************************************************************)
(* The python callback: energy functions a user may supply                 *)
(***************************************************************************)
Callbacks == {"none", "spring", "wall"}

RECURSIVE SumSlots(_, _)
SumSlots(snap, i) ==
    IF i = 0 THEN 0
    ELSE SumSlots(snap, i - 1)
         + 2 * (snap.pos[i] - (i % 2)) * (snap.pos[i] - (i % 2))
         + snap.orientation[i]

\* Harmonic restraint (k = 2) of every slot to its lattice site, plus a box term
Spring(snap) == Fin(SumSlots(snap, Len(snap.pos)) + snap.global_box)

\* Hard wall at the box edge: no score inside, infinite energy outside
Wall(snap) ==
    IF \E i \in 1 .. Len(snap.pos) : snap.pos[i] >= snap.global_box
    THEN PInf ELSE None

\* callback(snap)
Invoke(cb, snap) == IF cb = "spring" THEN Spring(snap) ELSE Wall(snap)

(***************************************************************************)
(* ExternalCallback                                                        *)
(***************************************************************************)
\* The snapshot a field that took it once, at construction, would hold
takeSnapshotAtConstruction ==
    LET snap == SystemDefinition_takeSnapshot(TRUE)
    IN  [snap EXCEPT !.pos = [i \in 1 .. Len(snap.pos) |-> 0], !.global_box = 1]

\* takeSnapshot()
takeSnapshot == SystemDefinition_takeSnapshot(TRUE)

\* The inner none check left out: the scorer's return is the energy as it is
getEnergyUnchecked(snap) ==
    IF callback # "none"
    THEN [e |-> Invoke(callback, snap), scored |-> <<snap>>]
    ELSE [e |-> Fin(0), scored |-> <<>>]

\* getEnergy(snap): the energy, and the snapshots handed to the scorer
getEnergy(snap) ==
    IF callback # "none"
    THEN LET rv == Invoke(callback, snap)
         IN  [e |-> IF rv # None THEN rv ELSE Fin(0), scored |-> <<snap>>]
    ELSE [e |-> Fin(0), scored |-> <<>>]

\* snap->particle_data.pos[snap_idx] = p; snap->particle_data.orientation[snap_idx] = q
\* (a slot past the end of the arrays leaves the snapshot as it is)
Overwrite(snap, snap_idx, p, q) ==
    IF snap_idx \in 1 .. Len(snap.pos)
    THEN [snap EXCEPT !.pos[snap_idx] = p, !.orientation[snap_idx] = q]
    ELSE snap

\* What a call returns and leaves behind: the value returned, the energies
\* and the snapshots they were evaluated on, and the live store after the call
NoCall ==
    [op |-> "none", status |-> "none", result |-> None, accepted |-> FALSE,
     e_old |-> None, e_new |-> None, evals |-> <<>>, scored |-> <<>>,
     events |-> <<>>, args |-> <<>>, u |-> None, rng_after |-> 0,
     pdata |-> <<>>]

\* calculateBoltzmannWeight(timestep)
calculateBoltzmannWeight ==
    LET snap == takeSnapshot
        energy == getEnergy(snap)
    IN  [NoCall EXCEPT !.op = "weight", !.status = "returned",
            !.result = FExp(FNeg(energy.e)),
            !.e_new = energy.e,
            !.evals = <<snap>>, !.scored = energy.scored,
            !.events = <<"energy">>,
            !.pdata = live]

\* boltzmann() looking the particle up by its live index, not by its tag
boltzmannByIndex(index, position_old, shape_old, position_new, shape_new, garbage) ==
    LET tag == h_tag[index]
        snap == takeSnapshot
        found == tag \in DOMAIN snap.map
        args == <<index, position_old, shape_old, position_new, shape_new>>
    IN  IF ~found /\ garbage = 0
        THEN [NoCall EXCEPT !.op = "boltzmann", !.status = "aborted", !.args = args,
                !.pdata = live]
        ELSE
        LET snap_idx == IF found THEN index ELSE garbage
            snap1 == Overwrite(snap, snap_idx, position_old, shape_old.orientation)
            energy_old == getEnergy(snap1)
            snap2 == Overwrite(snap1, snap_idx, position_new, shape_new.orientation)
            energy_new == getEnergy(snap2)
        IN  [NoCall EXCEPT !.op = "boltzmann", !.status = "returned",
                !.result = FExp(FAdd(FNeg(energy_new.e), energy_old.e)),
                !.e_old = energy_old.e, !.e_new = energy_new.e,
                !.evals = <<snap1, snap2>>,
                !.scored = energy_old.scored \o energy_new.scored,
                !.events = <<"energy_old", "energy_new">>,
                !.args = args,
                !.pdata = live]

\* boltzmann() returning exp(-energy_new - energy_old)
boltzmannSign(index, position_old, shape_old, position_new, shape_new, garbage) ==
    LET tag == h_tag[index]
        snap == takeSnapshot
        found == tag \in DOMAIN snap.map
        args == <<index, position_old, shape_old, position_new, shape_new>>
    IN  IF ~found /\ garbage = 0
        THEN [NoCall EXCEPT !.op = "boltzmann", !.status = "aborted", !.args = args,
                !.pdata = live]
        ELSE
        LET snap_idx == IF found THEN snap.map[tag] ELSE garbage
            snap1 == Overwrite(snap, snap_idx, position_old, shape_old.orientation)
            energy_old == getEnergy(snap1)
            snap2 == Overwrite(snap1, snap_idx, position_new, shape_new.orientation)
            energy_new == getEnergy(snap2)
        IN  [NoCall EXCEPT !.op = "boltzmann", !.status = "returned",
                !.result = FExp(FAdd(FNeg(energy_new.e), FNeg(energy_old.e))),
                !.e_old = energy_old.e, !.e_new = energy_new.e,
                !.evals = <<snap1, snap2>>,
                !.scored = energy_old.scored \o energy_new.scored,
                !.events = <<"energy_old", "energy_new">>,
                !.args = args,
                !.pdata = live]

\* boltzmann() writing the trial configuration to the live arrays as well
boltzmannWritesLive(index, position_old, shape_old, position_new, shape_new, garbage) ==
    LET tag == h_tag[index]
        snap == takeSnapshot
        found == tag \in DOMAIN snap.map
        args == <<index, position_old, shape_old, position_new, shape_new>>
    IN  IF ~found /\ garbage = 0
        THEN [NoCall EXCEPT !.op = "boltzmann", !.status = "aborted", !.args = args,
                !.pdata = live]
        ELSE
        LET snap_idx == IF found THEN snap.map[tag] ELSE garbage
            snap1 == Overwrite(snap, snap_idx, position_old, shape_old.orientation)
            energy_old == getEnergy(snap1)
            snap2 == Overwrite(snap1, snap_idx, position_new, shape_new.orientation)
            energy_new == getEnergy(snap2)
        IN  [NoCall EXCEPT !.op = "boltzmann", !.status = "returned",
                !.result = FExp(FAdd(FNeg(energy_new.e), energy_old.e)),
                !.e_old = energy_old.e, !.e_new = energy_new.e,
                !.evals = <<snap1, snap2>>,
                !.scored = energy_old.scored \o energy_new.scored,
                !.events = <<"energy_old", "energy_new">>,
                !.args = args,
                !.pdata = <<[particles EXCEPT ![tag] =
                                [pos |-> position_new,
                                 orientation |-> shape_new.orientation]],
                            h_tag, box>>]

\* boltzmann(index, position_old, shape_old, position_new, shape_new);
\* garbage is what snap_it->second reads when the tag is not in the map:
\* 0 when the assert is compiled in and stops the program, a slot otherwise
boltzmann(index, position_old, shape_old, position_new, shape_new, garbage) ==
    LET tag == h_tag[index]
        snap == takeSnapshot
        found == tag \in DOMAIN snap.map
        args == <<index, position_old, shape_old, position_new, shape_new>>
    IN  IF ~found /\ garbage = 0
        THEN [NoCall EXCEPT !.op = "boltzmann", !.status = "aborted", !.args = args,
                !.pdata = live]
        ELSE
        LET snap_idx == IF found THEN snap.map[tag] ELSE garbage
            snap1 == Overwrite(snap, snap_idx, position_old, shape_old.orientation)
            energy_old == getEnergy(snap1)
            snap2 == Overwrite(snap1, snap_idx, position_new, shape_new.orientation)
            energy_new == getEnergy(snap2)
        IN  [NoCall EXCEPT !.op = "boltzmann", !.status = "returned",
                !.result = FExp(FAdd(FNeg(energy_new.e), energy_old.e)),
                !.e_old = energy_old.e, !.e_new = energy_new.e,
                !.evals = <<snap1, snap2>>,
                !.scored = energy_old.scored \o energy_new.scored,
                !.events = <<"energy_old", "energy_new">>,
                !.args = args,
                !.pdata = live]

\* The loop writing each old value to the slot of its live index
RECURSIVE OverwriteLocalByIndex(_, _, _, _, _)
OverwriteLocalByIndex(snap, i, position_old_arg, orientation_old_arg, garbage) ==
    IF i > N THEN [ok |-> TRUE, snap |-> snap]
    ELSE LET tag == h_tag[i]
             found == tag \in DOMAIN snap.map
         IN  IF ~found /\ garbage = 0 THEN [ok |-> FALSE, snap |-> snap]
             ELSE LET snap_idx == IF found THEN i ELSE garbage
                  IN  OverwriteLocalByIndex(
                          Overwrite(snap, snap_idx, position_old_arg[i], orientation_old_arg[i]),
                          i + 1, position_old_arg, orientation_old_arg, garbage)

\* The loop of calculateBoltzmannFactor over live indices i..N: the snapshot
\* after the overwrites, with ok = FALSE where the assert stops the program
RECURSIVE OverwriteLocal(_, _, _, _, _)
OverwriteLocal(snap, i, position_old_arg, orientation_old_arg, garbage) ==
    IF i > N THEN [ok |-> TRUE, snap |-> snap]
    ELSE LET tag == h_tag[i]
             found == tag \in DOMAIN snap.map
         IN  IF ~found /\ garbage = 0 THEN [ok |-> FALSE, snap |-> snap]
             ELSE LET snap_idx == IF found THEN snap.map[tag] ELSE garbage
                  IN  OverwriteLocal(
                          Overwrite(snap, snap_idx, position_old_arg[i], orientation_old_arg[i]),
                          i + 1, position_old_arg, orientation_old_arg, garbage)

\* calculateBoltzmannFactor() that leaves the snapshot's box as it is
calculateBoltzmannFactorKeepsBox(position_old_arg, orientation_old_arg, box_old_arg, garbage) ==
    LET snap == takeSnapshot
        energy_new == getEnergy(snap)
        snap1 == snap
        loop == OverwriteLocal(snap1, 1, position_old_arg, orientation_old_arg, garbage)
        snap2 == loop.snap
        args == <<position_old_arg, orientation_old_arg, box_old_arg>>
    IN  IF ~loop.ok
        THEN [NoCall EXCEPT !.op = "factor", !.status = "aborted",
                !.e_new = energy_new.e, !.evals = <<snap>>,
                !.scored = energy_new.scored, !.events = <<"energy_new">>,
                !.args = args, !.pdata = live]
        ELSE
        LET energy_old == getEnergy(snap2)
        IN  [NoCall EXCEPT !.op = "factor", !.status = "returned",
                !.result = FExp(FAdd(FNeg(energy_new.e), energy_old.e)),
                !.e_old = energy_old.e, !.e_new = energy_new.e,
                !.evals = <<snap, snap2>>,
                !.scored = energy_new.scored \o energy_old.scored,
                !.events = <<"energy_new", "energy_old">>,
                !.args = args, !.pdata = live]

\* calculateBoltzmannFactor(position_old_arg, orientation_old_arg, box_old_arg)
calculateBoltzmannFactor(position_old_arg, orientation_old_arg, box_old_arg, garbage) ==
    LET snap == takeSnapshot
        energy_new == getEnergy(snap)
        snap1 == [snap EXCEPT !.global_box = box_old_arg]
        loop == OverwriteLocal(snap1, 1, position_old_arg, orientation_old_arg, garbage)
        snap2 == loop.snap
        args == <<position_old_arg, orientation_old_arg, box_old_arg>>
    IN  IF ~loop.ok
        THEN [NoCall EXCEPT !.op = "factor", !.status = "aborted",
                !.e_new = energy_new.e, !.evals = <<snap>>,
                !.scored = energy_new.scored, !.events = <<"energy_new">>,
                !.args = args, !.pdata = live]
        ELSE
        LET energy_old == getEnergy(snap2)
        IN  [NoCall EXCEPT !.op = "factor", !.status = "returned",
                !.result = FExp(FAdd(FNeg(energy_new.e), energy_old.e)),
                !.e_old = energy_old.e, !.e_new = energy_new.e,
                !.evals = <<snap, snap2>>,
                !.scored = energy_new.scored \o energy_old.scored,
                !.events = <<"energy_new", "energy_old">>,
                !.args = args, !.pdata = live]

\* rng.s(0.0, 1.0) at stream position s, in thousandths
Uniform(s) == <<367, 999, 0, 135>>[(s % 4) + 1]

\* accept() that draws only when the move is not downhill
acceptLazyDraw(index, position_old, shape_old, position_new, shape_new, s, garbage) ==
    LET boltz == boltzmann(index, position_old, shape_old, position_new, shape_new, garbage)
    IN  IF boltz.status = "aborted"
        THEN [boltz EXCEPT !.op = "accept", !.rng_after = s]
        ELSE LET u == Fin(Uniform(s))
                 reject == IF FLt(u, boltz.result) THEN FALSE ELSE TRUE
             IN  IF ~FLt(boltz.result, Fin(1000))
                 THEN [boltz EXCEPT !.op = "accept", !.u = u, !.rng_after = s,
                         !.accepted = TRUE]
                 ELSE [boltz EXCEPT !.op = "accept", !.u = u, !.rng_after = s + 1,
                         !.accepted = ~reject,
                         !.events = boltz.events \o <<"draw">>]

\* accept() with the two branches of the test swapped
acceptSwapped(index, position_old, shape_old, position_new, shape_new, s, garbage) ==
    LET boltz == boltzmann(index, position_old, shape_old, position_new, shape_new, garbage)
    IN  IF boltz.status = "aborted"
        THEN [boltz EXCEPT !.op = "accept", !.rng_after = s]
        ELSE LET u == Fin(Uniform(s))
                 reject == IF FLt(u, boltz.result) THEN TRUE ELSE FALSE
             IN  [boltz EXCEPT !.op = "accept", !.u = u, !.rng_after = s + 1,
                     !.accepted = ~reject,
                     !.events = boltz.events \o <<"draw">>]

\* accept(index, position_old, shape_old, position_new, shape_new, rng);
\* s is the position of the stream rng
accept(index, position_old, shape_old, position_new, shape_new, s, garbage) ==
    LET boltz == boltzmann(index, position_old, shape_old, position_new, shape_new, garbage)
    IN  IF boltz.status = "aborted"
        THEN [boltz EXCEPT !.op = "accept", !.rng_after = s]
        ELSE LET u == Fin(Uniform(s))
                 reject == IF FLt(u, boltz.result) THEN FALSE ELSE TRUE
             IN  [boltz EXCEPT !.op = "accept", !.u = u, !.rng_after = s + 1,
                     !.accepted = ~reject,
                     !.events = boltz.events \o <<"draw">>]

(***************************************************************************)
(* Engine calls                                                            *)
(***************************************************************************)
Shapes == [orientation : Orientations]

\* What snap_it->second may read for a tag: the assert (0) or any slot when
\* the tag is missing from a snapshot of n slots
Garbage(missing, n) == IF missing THEN 0 .. n + 1 ELSE {0}

SnapSize == Cardinality((DOMAIN particles) \ omitted)

\* The caller has made a new stream for the trial move at hand
FreshStream == rng = 0 /\ naccept = 0

\* A call returns r: the caller holds r, the live store is what the call left
Returns(r) ==
    /\ last' = r
    /\ particles' = r.pdata[1]
    /\ h_tag' = r.pdata[2]
    /\ box' = r.pdata[3]

CalculateBoltzmannWeight ==
    /\ last = NoCall
    /\ FreshStream
    /\ Returns(calculateBoltzmannWeight)
    /\ UNCHANGED <<callback, omitted, rng, naccept>>

CalculateBoltzmannFactor ==
    \E position_old_arg \in [1 .. N -> Positions],
       orientation_old_arg \in [1 .. N -> Orientations],
       box_old_arg \in Boxes,
       garbage \in Garbage(\E i \in 1 .. N : h_tag[i] \in omitted, SnapSize) :
        /\ last = NoCall
        /\ FreshStream
        /\ Returns(calculateBoltzmannFactor(position_old_arg, orientation_old_arg,
                                            box_old_arg, garbage))
        /\ UNCHANGED <<callback, omitted, rng, naccept>>

Boltzmann ==
    \E index \in 1 .. N, position_old \in Positions, shape_old \in Shapes,
       position_new \in Positions, shape_new \in Shapes :
        \E garbage \in Garbage(h_tag[index] \in omitted, SnapSize) :
            /\ last = NoCall
            /\ FreshStream
            /\ Returns(boltzmann(index, position_old, shape_old, position_new,
                                 shape_new, garbage))
            /\ UNCHANGED <<callback, omitted, rng, naccept>>

Accept ==
    \E index \in 1 .. N, position_old \in Positions, shape_old \in Shapes,
       position_new \in Positions, shape_new \in Shapes :
        \E garbage \in Garbage(h_tag[index] \in omitted, SnapSize) :
            /\ last = NoCall
            /\ naccept < MaxDraws
            /\ LET r == accept(index, position_old, shape_old, position_new, shape_new,
                               rng, garbage)
               IN  /\ Returns(r)
                   /\ rng' = r.rng_after
            /\ naccept' = naccept + 1
            /\ UNCHANGED <<callback, omitted>>

(***************************************************************************)
(* The surrounding integrator: changes of the live store between calls     *)
(***************************************************************************)
\* The caller takes the returned value; the trial move record is discarded
Discard ==
    /\ last # NoCall
    /\ last' = NoCall
    /\ UNCHANGED <<particles, h_tag, box, callback, omitted, rng, naccept>>

\* The caller makes a new stream (a Saru per particle and timestep)
NewStream ==
    /\ last = NoCall
    /\ ~FreshStream
    /\ rng' = 0
    /\ naccept' = 0
    /\ UNCHANGED <<particles, h_tag, box, callback, omitted, last>>

\* An accepted translation is committed to the particle with tag t
CommitMove ==
    \E t \in DOMAIN particles, p \in Positions :
        /\ last = NoCall
        /\ FreshStream
        /\ particles[t].pos # p
        /\ particles' = [particles EXCEPT ![t].pos = p]
        /\ UNCHANGED <<h_tag, box, callback, omitted, rng, naccept, last>>

\* The live arrays are re-sorted: two live indices trade places
Reorder ==
    \E i \in 1 .. N, j \in 1 .. N :
        /\ last = NoCall
        /\ FreshStream
        /\ i < j
        /\ h_tag' = [h_tag EXCEPT ![i] = h_tag[j], ![j] = h_tag[i]]
        /\ UNCHANGED <<particles, box, callback, omitted, rng, naccept, last>>

\* A box move is committed
ResizeBox ==
    \E b \in Boxes :
        /\ last = NoCall
        /\ FreshStream
        /\ b # box
        /\ box' = b
        /\ UNCHANGED <<particles, h_tag, callback, omitted, rng, naccept, last>>

\* The tags of L in ascending order
RECURSIVE Ascending(_)
Ascending(L) ==
    IF L = {} THEN <<>>
    ELSE LET t == CHOOSE x \in L : \A y \in L : x <= y
         IN  <<t>> \o Ascending(L \ {t})

\* As constructed: any set of live particles, aligned in one orientation and
\* at the origin, any of them local to this rank, in the smallest box, with
\* any callback
TypeInit ==
    /\ \E S \in SUBSET Tags, o \in Orientations :
        /\ particles = [t \in S |-> [pos |-> 0, orientation |-> o]]
        /\ \E L \in SUBSET S : h_tag = Ascending(L)
    /\ box = 1
    /\ callback \in Callbacks
    /\ rng = 0
    /\ naccept = 0
    /\ last = NoCall

Init == TypeInit /\ omitted = {}

Next ==
    \/ CalculateBoltzmannWeight
    \/ CalculateBoltzmannFactor
    \/ Boltzmann
    \/ Accept
    \/ Discard
    \/ NewStream
    \/ CommitMove
    \/ Reorder
    \/ ResizeBox

Spec == Init /\ [][Next]_vars

\* The same program over a snapshot provider that leaves one live tag out
InitFault == TypeInit /\ \E t \in DOMAIN particles : omitted = {t}

SpecFault == InitFault /\ [][Next]_vars

(***************************************************************************)
(* Reference configurations, by tag                                        *)
(***************************************************************************)
Pose(p, q) == [pos |-> p, orientation |-> q]

\* The snapshot of the live configuration in the box b in which the
\* particles with a tag in DOMAIN over hold the pose over gives them
RefSnapshot(over, b) ==
    LET S == DOMAIN particles
        PoseOf(t) == IF t \in DOMAIN over THEN over[t] ELSE particles[t]
    IN  [map |-> [t \in S |-> Rank(t, S)],
         pos |-> [i \in 1 .. Cardinality(S) |-> PoseOf(TagAtSlot(i, S)).pos],
         orientation |-> [i \in 1 .. Cardinality(S) |-> PoseOf(TagAtSlot(i, S)).orientation],
         global_box |-> b]

NoOverride == [t \in {} |-> Pose(0, 0)]
Only(t, p, q) == [x \in {t} |-> Pose(p, q)]

\* a <= b
FLe(a, b) == FLt(a, b) \/ (a.k # "nan" /\ a = b)

One == Fin(1000)

Returned(op) == last.op = op /\ last.status = "returned"

C2_Accept ==
    /\ rng = naccept
    /\ Returned("accept") =>
        LET a == last.args
        IN  /\ last.u = Fin(Uniform(rng - 1))
            /\ last.result = boltzmann(a[1], a[2], a[3], a[4], a[5], 0).result
            /\ last.accepted <=> FLt(last.u, last.result)

\* The second accept call on a stream, rejected, after an accepted first one
\* (the first draw, 0.367, is below every ratio >= 1).
C2_Witness ==
    /\ Returned("accept")
    /\ naccept = 2
    /\ ~last.accepted
    /\ FLt(Fin(0), last.result)

\* The energies of a call, in the order of its evaluations
Energies ==
    IF last.op = "weight" THEN <<last.e_new>>
    ELSE IF last.op = "factor" THEN <<last.e_new, last.e_old>>
    ELSE <<last.e_old, last.e_new>>

\* C3: with the none callback the energy is 0 and the scorer is not invoked;
\* otherwise the scorer is invoked with each snapshot, a none return is
\* energy 0 and any other return is the energy; the call returns normally.
C3_NullChecks ==
    (last.op # "none" /\ last.status = "returned") =>
        /\ Len(Energies) = Len(last.evals)
        /\ callback = "none" =>
            /\ last.scored = <<>>
            /\ \A i \in 1 .. Len(Energies) : Energies[i] = Fin(0)
        /\ callback # "none" =>
            /\ last.scored = last.evals
            /\ \A i \in 1 .. Len(Energies) :
                LET rv == Invoke(callback, last.evals[i])
                IN  /\ rv = None => Energies[i] = Fin(0)
                    /\ rv # None => Energies[i] = rv

\* A particle move in a wall field: no score for the old configuration
\* (energy 0), infinite energy for the new one.
C3_Witness ==
    /\ Returned("boltzmann")
    /\ callback = "wall"
    /\ Wall(last.evals[1]) = None
    /\ last.e_old = Fin(0)
    /\ last.e_new = PInf

\* The old poses a box move hands over, by tag
OldPoses(position_old_arg, orientation_old_arg) ==
    [t \in {h_tag[i] : i \in 1 .. N} |->
        LET i == CHOOSE k \in 1 .. N : h_tag[k] = t
        IN  Pose(position_old_arg[i], orientation_old_arg[i])]

\* C4: a box move evaluates E_new on the unmodified snapshot of the current
\* configuration, then E_old on that snapshot with the old box and, for each
\* local particle, the old pose in the slot of its tag, every other slot and
\* the map as they were, and returns exp(E_old - E_new); with N = 0 the two
\* snapshots differ in the box alone.
C4_BoxMove ==
    Returned("factor") =>
        LET a == last.args
            snapNew == RefSnapshot(NoOverride, box)
            snapOld == RefSnapshot(OldPoses(a[1], a[2]), a[3])
            E_new == getEnergy(snapNew).e
            E_old == getEnergy(snapOld).e
        IN  /\ last.evals = <<snapNew, snapOld>>
            /\ last.e_new = E_new
            /\ last.e_old = E_old
            /\ last.result = FExp(FAdd(E_old, FNeg(E_new)))
            /\ N = 0 => last.evals[2] = [last.evals[1] EXCEPT !.global_box = a[3]]
            /\ \A t \in DOMAIN particles :
                (\A i \in 1 .. N : h_tag[i] # t) =>
                    LET k == last.evals[1].map[t]
                    IN  /\ last.evals[2].pos[k] = last.evals[1].pos[k]
                        /\ last.evals[2].orientation[k] = last.evals[1].orientation[k]

\* A box move with a local particle out of tag order beside a particle of
\* another rank, old box, position and orientation all differing from the
\* current ones.
C4_Witness ==
    /\ Returned("factor")
    /\ callback = "spring"
    /\ N >= 1
    /\ N < Cardinality(DOMAIN particles)
    /\ takeSnapshot.map[h_tag[1]] # 1
    /\ last.args[3] # box
    /\ last.args[1][1] # particles[h_tag[1]].pos
    /\ last.args[2][1] # particles[h_tag[1]].orientation
    /\ last.result # One

\* A box move of a rank that owns no particle, in a system that has one.
C4_WitnessEmpty ==
    /\ Returned("factor")
    /\ N = 0
    /\ DOMAIN particles # {}
    /\ last.args[3] # box
    /\ last.result # One

\* C5 (as claimed): when the tag of the moved particle, or of a local
\* particle of a box move, is not in the snapshot's map, the call aborts:
\* it returns no Boltzmann factor and no decision.
C5_FailFast ==
    /\ (last.op \in {"boltzmann", "accept"} /\ h_tag[last.args[1]] \in omitted)
            => last.status = "aborted"
    /\ (last.op = "factor" /\ \E i \in 1 .. N : h_tag[i] \in omitted)
            => last.status = "aborted"

\* C6: an engine call leaves the live positions, orientations, tags and box
\* as they were; its overwrites are in the snapshots it evaluated.
C6_Isolation == [][(last = NoCall /\ last' # NoCall) => live' = live]_vars

\* A particle move has returned: both snapshots it evaluated differ from the
\* live configuration, which holds neither the old nor the new trial pose.
C6_Witness ==
    /\ Returned("boltzmann")
    /\ last.evals[1] # takeSnapshot
    /\ last.evals[2] # takeSnapshot
    /\ last.evals[1] # last.evals[2]

\* C7: every call evaluates a snapshot of the live configuration as it is at
\* the call: the whole of it for the weight and for E_new of a box move, all
\* but the moved particle's slot for a particle move.
C7_FreshSnapshot ==
    (last.op # "none" /\ last.status = "returned") =>
        LET current == RefSnapshot(NoOverride, box)
            first == last.evals[1]
        IN  /\ last.op = "weight" => last.evals = <<current>>
            /\ last.op = "factor" => first = current
            /\ last.op \in {"boltzmann", "accept"} =>
                /\ first.map = current.map
                /\ first.global_box = current.global_box
                /\ Len(first.pos) = Len(current.pos)
                /\ \A k \in 1 .. Len(current.pos) :
                    (k # current.map[h_tag[last.args[1]]]) =>
                        /\ first.pos[k] = current.pos[k]
                        /\ first.orientation[k] = current.orientation[k]

\* A weight taken after a translation and a box move were committed: the
\* configuration evaluated is not the one the field was constructed over.
C7_Witness ==
    /\ Returned("weight")
    /\ callback = "spring"
    /\ box # 1
    /\ \E t \in DOMAIN particles : particles[t].pos # 0
    /\ last.evals[1] # takeSnapshotAtConstruction

\* A particle move whose new position and shape are the old ones
NoOpMove ==
    /\ Returned("boltzmann") \/ Returned("accept")
    /\ last.args[4] = last.args[2]
    /\ last.args[5] = last.args[3]

\* C8 (as claimed): a no-op particle move has E_old = E_new and returns 1.
C8_NoOpOriginal == NoOpMove => (last.e_old = last.e_new /\ last.result = One)

\* C8 (amended): a no-op particle move evaluates the same snapshot twice, so
\* E_old = E_new; it returns 1 when that energy is finite and NaN when it is
\* infinite.
C8_NoOp ==
    NoOpMove =>
        /\ last.evals[1] = last.evals[2]
        /\ last.e_old = last.e_new
        /\ IsFinite(last.e_old) => last.result = One
        /\ ~IsFinite(last.e_old) => last.result = NaN

\* A no-op move, in a spring field, of a particle to a place it is not at.
C8_Witness ==
    /\ NoOpMove
    /\ callback = "spring"
    /\ last.args[2] # particles[h_tag[last.args[1]]].pos
    /\ last.result = One

\* A box move handing over the current box, positions and orientations
Degenerate ==
    /\ Returned("factor")
    /\ last.args[3] = box
    /\ \A i \in 1 .. N :
        /\ last.args[1][i] = particles[h_tag[i]].pos
        /\ last.args[2][i] = particles[h_tag[i]].orientation

\* C9 (as claimed): a degenerate box move evaluates the same snapshot twice
\* and returns 1, for any field.
C9_DegenerateOriginal ==
    Degenerate =>
        (last.evals[1] = last.evals[2] /\ last.e_old = last.e_new /\ last.result = One)

\* C9 (amended): a degenerate box move evaluates the same snapshot twice, so
\* E_old = E_new; it returns 1 when that energy is finite and NaN when it is
\* infinite.
C9_Degenerate ==
    Degenerate =>
        /\ last.evals[1] = last.evals[2]
        /\ last.e_old = last.e_new
        /\ IsFinite(last.e_new) => last.result = One
        /\ ~IsFinite(last.e_new) => last.result = NaN

\* A degenerate box move of two local particles held out of tag order at
\* different positions, in a spring field.
C9_Witness ==
    /\ Degenerate
    /\ callback = "spring"
    /\ N >= 2
    /\ h_tag[1] > h_tag[2]
    /\ particles[h_tag[1]].pos # particles[h_tag[2]].pos
    /\ last.result = One

\* Uniform values the stream may give
UValues == {Uniform(s) : s \in 0 .. 3} \cup {0, 999}

SameInfinity == last.e_old.k = "inf" /\ last.e_old = last.e_new

====
